---- MODULE Spec2Model ----
(***************************************************************************)
(* A model of scripts/monitor_cpu_comparison.py: the launch-and-monitor    *)
(* CPU comparison script.  The pure helpers (calculate_reduction_percent-  *)
(* age, parse_cpu_time, the argument loop of main) are operators that      *)
(* compute what the Python computes; kill_existing_processes and main are  *)
(* state machines stepped one statement group at a time against an         *)
(* environment (process table, operator, wall clock).                      *)
(*                                                                         *)
(* Text is a sequence of one-character strings.  A float is an integer     *)
(* count of 1/Scale seconds (or a rational for the percentage).            *)
(***************************************************************************)
EXTENDS Integers, Sequences, FiniteSets, TLC

VARIABLES
    \* calculate_reduction_percentage applied to one pair of inputs
    calc_mac, calc_stats, calc_result, calc_pc,
    \* parse_cpu_time applied to one string
    cpu_time_str, parse_result, parse_pc,
    \* the argument loop of main
    args, i, duration, interval, warmup, auto_kill, keep_running, debug, arg_pc,
    \* kill_existing_processes against a process table
    table, procs, kill_i, killed_pids, failed_pids, failed_copy, signals, kill_pc,
    \* main: the script's own state
    pc, path, response, mac_stats_main_pid, stats_main_pid, mac_stats_pids, stats_pids,
    warmup_start, mac_stats_initial_times, stats_initial_times, data, start_time,
    timestamp, mac_stats_metrics, stats_metrics, report_file, csv_file,
    \* main: its environment (wall clock, process table)
    now, existing, alive, foreign, cpu_time,
    \* main: what has happened so far in the run
    start_failed, warmup_entered, died_in_warmup, baseline_captured, polls,
    interrupted, samples_at_interrupt,
    \* main: the warmup asked for, a PID that came back as another process,
    \* and the end of the run (teardown prompt shown, PIDs sent SIGTERM)
    warmup_requested, reused, prompted, terminated,
    \* get_all_related_pids walking the children of one PID
    walk_pid, seen, frames, all_pids, lookups, walk_pc,
    \* the screenshot helper
    FILENAME, waited, result, captures, opened, shot_pc

calcVars == <<calc_mac, calc_stats, calc_result, calc_pc>>
parseVars == <<cpu_time_str, parse_result, parse_pc>>
argVars == <<args, i, duration, interval, warmup, auto_kill, keep_running, debug, arg_pc>>
killVars == <<table, procs, kill_i, killed_pids, failed_pids, failed_copy, signals,
             kill_pc>>
progVars == <<pc, path, response, mac_stats_main_pid, stats_main_pid, mac_stats_pids,
             stats_pids, warmup_start, mac_stats_initial_times, stats_initial_times,
             data, start_time, timestamp, mac_stats_metrics, stats_metrics,
             report_file, csv_file>>
envVars == <<now, existing, alive, foreign, cpu_time>>
histVars == <<start_failed, warmup_entered, died_in_warmup, baseline_captured, polls,
             interrupted, samples_at_interrupt>>
tailVars == <<warmup_requested, reused, prompted, terminated>>
mainVars == <<progVars, envVars, histVars, tailVars>>
walkVars == <<walk_pid, seen, frames, all_pids, lookups, walk_pc>>
shotVars == <<FILENAME, waited, result, captures, opened, shot_pc>>
vars == <<calcVars, parseVars, argVars, killVars, mainVars, walkVars, shotVars>>

(***************************************************************************)
(* Bounds of the model.                                                    *)
(***************************************************************************)
\* inputs of calculate_reduction_percentage range over -MaxVal..MaxVal
MaxVal == 9

(***************************************************************************)
(* Times are fixed-point: ps prints hundredths (MM:SS.mm, line 201), so a  *)
(* float of seconds is an integer count of 1/Scale seconds.                *)
(***************************************************************************)
FracDigits == 2

Scale == 10 ^ FracDigits

(***************************************************************************)
(* calculate_reduction_percentage (lines 366-380).  The result is either   *)
(* float('inf') or the rational num/den, den # 0, before any rounding.     *)
(***************************************************************************)
Inf == [inf |-> TRUE, num |-> 1, den |-> 1]
Rat(n, d) == [inf |-> FALSE, num |-> n, den |-> d]
NoResult == [inf |-> FALSE, num |-> 0, den |-> 0]

RatEq(a, b) == /\ ~a.inf /\ ~b.inf
               /\ a.den # 0 /\ b.den # 0
               /\ a.num * b.den = b.num * a.den
RatPositive(a) == a.inf \/ (a.den # 0 /\ a.num * a.den > 0)
RatNegative(a) == ~a.inf /\ a.den # 0 /\ a.num * a.den < 0

\* a slip: the both-zero test of the zero-baseline branch is lost
calculate_reduction_percentage_noBothZero(mac_stats_value, stats_value) ==
    IF stats_value = 0 THEN Inf
    ELSE IF mac_stats_value = 0 THEN Rat(100, 1)
    ELSE IF mac_stats_value < stats_value
         THEN Rat((stats_value - mac_stats_value) * 100, stats_value)
         ELSE Rat(-((mac_stats_value - stats_value) * 100), stats_value)

\* a slip: the increase is returned without its minus sign
calculate_reduction_percentage_noNegate(mac_stats_value, stats_value) ==
    IF stats_value = 0
    THEN (IF mac_stats_value = 0 THEN Rat(0, 1) ELSE Inf)
    ELSE IF mac_stats_value = 0 THEN Rat(100, 1)
    ELSE IF mac_stats_value < stats_value
         THEN Rat((stats_value - mac_stats_value) * 100, stats_value)
         ELSE Rat((mac_stats_value - stats_value) * 100, stats_value)

calculate_reduction_percentage(mac_stats_value, stats_value) ==
    IF stats_value = 0
    THEN (IF mac_stats_value = 0 THEN Rat(0, 1) ELSE Inf)
    ELSE IF mac_stats_value = 0 THEN Rat(100, 1)
    ELSE IF mac_stats_value < stats_value
         THEN Rat((stats_value - mac_stats_value) * 100, stats_value)
         ELSE Rat(-((mac_stats_value - stats_value) * 100), stats_value)

CalcIdle == /\ calc_mac = 0 /\ calc_stats = 0
            /\ calc_result = NoResult /\ calc_pc = "idle"

CalcInit == /\ calc_mac \in -MaxVal..MaxVal
            /\ calc_stats \in -MaxVal..MaxVal
            /\ calc_result = NoResult
            /\ calc_pc = "call"

CalcCall == /\ calc_pc = "call"
            /\ calc_result' = calculate_reduction_percentage(calc_mac, calc_stats)
            /\ calc_pc' = "done"
            /\ UNCHANGED <<calc_mac, calc_stats, parseVars, argVars, killVars, mainVars, walkVars, shotVars>>

(***************************************************************************)
(* Text helpers: what str.strip, str.count, str.split, int() and float()   *)
(* do on the characters the model uses (digits, ':', '-', '.', ' ', and    *)
(* letters).  int() and float() answer [ok, val]; ok = FALSE stands for    *)
(* the ValueError Python raises.                                           *)
(***************************************************************************)
Digits == {"0", "1", "2", "3", "4", "5", "6", "7", "8", "9"}

DigitVal(c) ==
    CASE c = "0" -> 0 [] c = "1" -> 1 [] c = "2" -> 2 [] c = "3" -> 3
      [] c = "4" -> 4 [] c = "5" -> 5 [] c = "6" -> 6 [] c = "7" -> 7
      [] c = "8" -> 8 [] c = "9" -> 9

isdigit(s) == s # <<>> /\ \A k \in 1..Len(s) : s[k] \in Digits

RECURSIVE DigitsValue(_)
DigitsValue(s) ==
    IF s = <<>> THEN 0
    ELSE DigitVal(Head(s)) * 10 ^ (Len(s) - 1) + DigitsValue(Tail(s))

count(s, c) == Cardinality({k \in 1..Len(s) : s[k] = c})

find(s, c) == IF \E k \in 1..Len(s) : s[k] = c
              THEN CHOOSE k \in 1..Len(s) : s[k] = c /\ \A j \in 1..(k - 1) : s[j] # c
              ELSE 0

RECURSIVE strip(_)
strip(s) ==
    IF s = <<>> THEN s
    ELSE IF Head(s) = " " THEN strip(Tail(s))
    ELSE IF s[Len(s)] = " " THEN strip(SubSeq(s, 1, Len(s) - 1))
    ELSE s

RECURSIVE split(_, _)
split(s, sep) ==
    LET k == find(s, sep)
    IN  IF k = 0 THEN <<s>>
        ELSE <<SubSeq(s, 1, k - 1)>> \o split(SubSeq(s, k + 1, Len(s)), sep)

RECURSIVE replace_empty(_, _)
replace_empty(s, c) ==
    IF s = <<>> THEN s
    ELSE IF Head(s) = c THEN replace_empty(Tail(s), c)
    ELSE <<Head(s)>> \o replace_empty(Tail(s), c)

Failed == [ok |-> FALSE, val |-> 0]
Value(v) == [ok |-> TRUE, val |-> v]

\* an optional sign before the digits of a number
HasSign(body) == body # <<>> /\ body[1] \in {"-", "+"}
Unsigned(body) == IF HasSign(body) THEN Tail(body) ELSE body
Signed(body, m) == IF m.ok /\ HasSign(body) /\ body[1] = "-" THEN Value(-m.val) ELSE m

IntMagnitude(s) == IF isdigit(s) THEN Value(DigitsValue(s)) ELSE Failed

\* int(text): surrounding blanks and a sign are accepted
int(s) == Signed(strip(s), IntMagnitude(Unsigned(strip(s))))

\* the value, in 1/Scale, of the fraction digits f (digits past FracDigits
\* are below the model's resolution)
FractionValue(f) ==
    LET kept == SubSeq(f, 1, IF Len(f) < FracDigits THEN Len(f) ELSE FracDigits)
    IN  DigitsValue(kept) * 10 ^ (FracDigits - Len(kept))

FloatMagnitude(s) ==
    LET k == find(s, ".")
        whole == IF k = 0 THEN s ELSE SubSeq(s, 1, k - 1)
        frac == IF k = 0 THEN <<>> ELSE SubSeq(s, k + 1, Len(s))
    IN  IF /\ (whole = <<>> \/ isdigit(whole))
           /\ (frac = <<>> \/ isdigit(frac))
           /\ (whole # <<>> \/ frac # <<>>)
        THEN Value(DigitsValue(whole) * Scale + FractionValue(frac))
        ELSE Failed

\* float(text): surrounding blanks and a sign are accepted
float(s) == Signed(strip(s), FloatMagnitude(Unsigned(strip(s))))

(***************************************************************************)
(* parse_cpu_time (lines 197-236).  Any exception inside the try leaves    *)
(* the function at its final `return 0.0`.                                 *)
(***************************************************************************)
SecondsPerDay == 86400
SecondsPerHour == 3600
SecondsPerMinute == 60

\* a slip: hours weighted like minutes
parse_colon_parts_hoursAsMinutes(s) ==
    LET parts == split(s, ":")
    IN  IF Len(parts) = 3
        THEN LET hours == int(parts[1])
                 minutes == int(parts[2])
                 seconds == float(parts[3])
             IN  IF hours.ok /\ minutes.ok /\ seconds.ok
                 THEN hours.val * SecondsPerMinute * Scale
                      + minutes.val * SecondsPerMinute * Scale + seconds.val
                 ELSE 0
        ELSE IF Len(parts) = 2
        THEN LET minutes == int(parts[1])
                 seconds == float(parts[2])
             IN  IF minutes.ok /\ seconds.ok
                 THEN minutes.val * SecondsPerMinute * Scale + seconds.val
                 ELSE 0
        ELSE LET seconds == float(s)
             IN  IF seconds.ok THEN seconds.val ELSE 0

\* lines 215-231: the colon-separated formats
parse_colon_parts(s) ==
    LET parts == split(s, ":")
    IN  IF Len(parts) = 3
        THEN LET hours == int(parts[1])
                 minutes == int(parts[2])
                 seconds == float(parts[3])
             IN  IF hours.ok /\ minutes.ok /\ seconds.ok
                 THEN hours.val * SecondsPerHour * Scale
                      + minutes.val * SecondsPerMinute * Scale + seconds.val
                 ELSE 0
        ELSE IF Len(parts) = 2
        THEN LET minutes == int(parts[1])
                 seconds == float(parts[2])
             IN  IF minutes.ok /\ seconds.ok
                 THEN minutes.val * SecondsPerMinute * Scale + seconds.val
                 ELSE 0
        ELSE LET seconds == float(s)
             IN  IF seconds.ok THEN seconds.val ELSE 0

RECURSIVE parse_cpu_time(_)
parse_cpu_time(text) ==
    LET s == strip(text)
    IN  IF count(s, "-") = 1
        THEN LET k == find(s, "-")
                 day_part == SubSeq(s, 1, k - 1)
                 time_part == SubSeq(s, k + 1, Len(s))
                 days == int(day_part)
             IN  IF days.ok
                 THEN days.val * SecondsPerDay * Scale + parse_cpu_time(time_part)
                 ELSE 0
        ELSE parse_colon_parts(s)

(***************************************************************************)
(* The strings parse_cpu_time is applied to: up to MaxFields fields joined *)
(* by ':' or '-'.                                                          *)
(***************************************************************************)
MaxFields == 4

Fields == { <<>>, <<"0">>, <<"2">>, <<"1", "2">>, <<"3", "4">>, <<"5", "6">>,
            <<"0", "1", ".", "2", "9">>, <<"x">>, <<" ", "2">> }
Separators == {":", "-"}

RECURSIVE Join(_, _)
Join(fs, seps) ==
    IF Len(fs) = 1 THEN fs[1]
    ELSE fs[1] \o <<seps[1]>> \o Join(Tail(fs), Tail(seps))

ParseIdle == /\ cpu_time_str = <<>> /\ parse_result = 0 /\ parse_pc = "idle"

ParseInit == /\ \E n \in 1..MaxFields :
                  \E fs \in [1..n -> Fields], seps \in [1..(n - 1) -> Separators] :
                      cpu_time_str = Join(fs, seps)
             /\ parse_result = 0
             /\ parse_pc = "call"

ParseCall == /\ parse_pc = "call"
             /\ parse_result' = parse_cpu_time(cpu_time_str)
             /\ parse_pc' = "done"
             /\ UNCHANGED <<cpu_time_str, calcVars, argVars, killVars, mainVars, walkVars, shotVars>>

(***************************************************************************)
(* The argument loop of main (lines 574-603).  args is sys.argv[1:]; i is  *)
(* the Python index, so the argument at hand is args[i + 1].  duration and *)
(* warmup are whole seconds, interval is a float in 1/Scale seconds.       *)
(***************************************************************************)
MaxArgs == 4

DefaultDuration == 60
DefaultInterval == 1
DefaultWarmup == 30

FLAG_AUTO_KILL == <<"-", "-", "a", "u", "t", "o", "-", "k", "i", "l", "l">>
FLAG_KEEP_RUNNING == <<"-", "-", "k", "e", "e", "p", "-", "r", "u", "n", "n", "i", "n", "g">>
FLAG_KILL_AFTER == <<"-", "-", "k", "i", "l", "l", "-", "a", "f", "t", "e", "r">>
FLAG_DEBUG == <<"-", "-", "d", "e", "b", "u", "g">>

ArgTexts == { FLAG_AUTO_KILL, FLAG_KEEP_RUNNING, FLAG_KILL_AFTER, FLAG_DEBUG,
              <<"6", "0">>, <<"1">>, <<"3", "0">>, <<"5">>, <<"2", ".", "5">>,
              <<"x">> }

\* line 593: arg.isdigit() or ('.' in arg and arg.replace('.', '').isdigit())
is_numeric_arg(arg) ==
    isdigit(arg) \/ (count(arg, ".") > 0 /\ isdigit(replace_empty(arg, ".")))

\* int(x) of a float x: truncation toward zero
int_of_float(v) == IF v >= 0 THEN v \div Scale ELSE -((-v) \div Scale)

ArgIdle == /\ args = <<>> /\ i = 0 /\ arg_pc = "idle"
           /\ keep_running = "None" /\ debug = FALSE

ArgInit == /\ args \in UNION {[1..n -> ArgTexts] : n \in 0..MaxArgs}
           /\ i = 0
           /\ duration = DefaultDuration
           /\ interval = DefaultInterval * Scale
           /\ warmup = DefaultWarmup
           /\ auto_kill = FALSE
           /\ keep_running = "None"
           /\ debug = FALSE
           /\ arg_pc = "loop"

\* lines 594-602: which of the three values a numeric argument is stored in
NumericSlot(d, iv, w) ==
    IF d = DefaultDuration /\ iv = DefaultInterval * Scale /\ w = DefaultWarmup
    THEN "duration"
    ELSE IF iv = DefaultInterval * Scale /\ w = DefaultWarmup
    THEN "interval"
    ELSE "warmup"

\* one iteration of `while i < len(args)` (lines 583-603)
ArgStep ==
    /\ arg_pc = "loop"
    /\ i < Len(args)
    /\ LET arg == args[i + 1]
       IN  IF arg = FLAG_AUTO_KILL
           THEN /\ auto_kill' = TRUE
                /\ arg_pc' = "loop"
                /\ UNCHANGED <<keep_running, debug, duration, interval, warmup>>
           ELSE IF arg = FLAG_KEEP_RUNNING
           THEN /\ keep_running' = "True"
                /\ arg_pc' = "loop"
                /\ UNCHANGED <<auto_kill, debug, duration, interval, warmup>>
           ELSE IF arg = FLAG_KILL_AFTER
           THEN /\ keep_running' = "False"
                /\ arg_pc' = "loop"
                /\ UNCHANGED <<auto_kill, debug, duration, interval, warmup>>
           ELSE IF arg = FLAG_DEBUG
           THEN /\ debug' = TRUE
                /\ arg_pc' = "loop"
                /\ UNCHANGED <<auto_kill, keep_running, duration, interval, warmup>>
           ELSE IF is_numeric_arg(arg)
           THEN LET x == float(arg)
                    slot == NumericSlot(duration, interval, warmup)
                IN  IF ~x.ok
                    THEN \* float() raises ValueError, which nothing catches
                         /\ arg_pc' = "crashed"
                         /\ UNCHANGED <<auto_kill, keep_running, debug,
                                        duration, interval, warmup>>
                    ELSE /\ arg_pc' = "loop"
                         /\ duration' = IF slot = "duration"
                                        THEN int_of_float(x.val) ELSE duration
                         /\ interval' = IF slot = "interval" THEN x.val ELSE interval
                         /\ warmup' = IF slot = "warmup"
                                      THEN int_of_float(x.val) ELSE warmup
                         /\ UNCHANGED <<auto_kill, keep_running, debug>>
           ELSE /\ arg_pc' = "loop"
                /\ UNCHANGED <<auto_kill, keep_running, debug,
                               duration, interval, warmup>>
    /\ i' = i + 1
    /\ UNCHANGED <<args, calcVars, parseVars, killVars, mainVars, walkVars, shotVars>>

\* the loop condition fails: the arguments are parsed
ArgDone ==
    /\ arg_pc = "loop"
    /\ i >= Len(args)
    /\ arg_pc' = "parsed"
    /\ UNCHANGED <<args, i, duration, interval, warmup, auto_kill, keep_running,
                   debug, calcVars, parseVars, killVars, mainVars, walkVars, shotVars>>

(***************************************************************************)
(* kill_existing_processes (lines 45-89) against a process table.  A       *)
(* process is alive or not, and is foreign when the operator may not       *)
(* signal it.  os.kill answers by the state of its target: a dead target   *)
(* raises ProcessLookupError, a foreign one PermissionError.  A process    *)
(* that was delivered SIGTERM exits when it chooses to (ProcExit), or      *)
(* never; SIGKILL ends its target at once.  signals is the log of what the *)
(* function did, in order.                                                 *)
(***************************************************************************)
MaxProcs == 2

TablePids == 1..MaxProcs

\* os.kill(pid, sig): "ok", "ProcessLookupError" or "PermissionError"
os_kill(tbl, pid) ==
    IF ~tbl[pid].alive THEN "ProcessLookupError"
    ELSE IF tbl[pid].foreign THEN "PermissionError"
    ELSE "ok"

\* find_processes_by_pattern (lines 24-43): the matching live processes
RECURSIVE find_processes_by_pattern(_, _)
find_processes_by_pattern(tbl, from) ==
    IF from > MaxProcs THEN <<>>
    ELSE (IF tbl[from].alive THEN <<from>> ELSE <<>>)
         \o find_processes_by_pattern(tbl, from + 1)

remove(seq, x) == SelectSeq(seq, LAMBDA y : y # x)

KillIdle == /\ table = <<>> /\ procs = <<>> /\ kill_i = 0
            /\ killed_pids = <<>> /\ failed_pids = <<>> /\ failed_copy = <<>>
            /\ signals = <<>> /\ kill_pc = "idle"

KillInit == /\ table \in [TablePids -> [alive : BOOLEAN, foreign : BOOLEAN]]
            /\ procs = <<>> /\ kill_i = 0
            /\ killed_pids = <<>> /\ failed_pids = <<>> /\ failed_copy = <<>>
            /\ signals = <<>>
            /\ kill_pc = "find"

\* lines 47-52
KillFind ==
    /\ kill_pc = "find"
    /\ procs' = find_processes_by_pattern(table, 1)
    /\ kill_pc' = IF procs' = <<>> THEN "returned" ELSE "sigterm"
    /\ kill_i' = 1
    /\ UNCHANGED <<table, killed_pids, failed_pids, failed_copy, signals>>
    /\ UNCHANGED <<calcVars, parseVars, argVars, mainVars, walkVars, shotVars>>

\* one iteration of `for proc in procs` (lines 53-67)
KillSigterm ==
    /\ kill_pc = "sigterm"
    /\ kill_i <= Len(procs)
    /\ LET pid == procs[kill_i]
           r == os_kill(table, pid)
       IN  /\ signals' = Append(signals, [sig |-> "SIGTERM", pid |-> pid, result |-> r])
           /\ killed_pids' = IF r = "ok" THEN Append(killed_pids, pid) ELSE killed_pids
           /\ failed_pids' = IF r = "PermissionError"
                             THEN Append(failed_pids, pid) ELSE failed_pids
    /\ kill_i' = kill_i + 1
    /\ UNCHANGED <<table, procs, failed_copy, kill_pc>>
    /\ UNCHANGED <<calcVars, parseVars, argVars, mainVars, walkVars, shotVars>>

\* lines 69-71: the grace period, slept only when some SIGTERM was delivered
KillGrace ==
    /\ kill_pc = "sigterm"
    /\ kill_i > Len(procs)
    /\ signals' = IF killed_pids # <<>>
                  THEN Append(signals, [sig |-> "sleep", pid |-> 0, result |-> "ok"])
                  ELSE signals
    /\ kill_pc' = IF failed_pids # <<>> THEN "sigkill" ELSE "returned"
    /\ kill_i' = 1
    /\ failed_copy' = failed_pids     \* failed_pids[:], which the next loop walks
    /\ UNCHANGED <<table, procs, killed_pids, failed_pids>>
    /\ UNCHANGED <<calcVars, parseVars, argVars, mainVars, walkVars, shotVars>>

\* one iteration of `for pid in failed_pids[:]` (lines 76-83)
KillSigkill ==
    /\ kill_pc = "sigkill"
    /\ kill_i <= Len(failed_copy)
    /\ LET pid == failed_copy[kill_i]
           r == os_kill(table, pid)
       IN  /\ signals' = Append(signals, [sig |-> "SIGKILL", pid |-> pid, result |-> r])
           /\ killed_pids' = IF r = "ok" THEN Append(killed_pids, pid) ELSE killed_pids
           /\ failed_pids' = IF r = "ok" THEN remove(failed_pids, pid) ELSE failed_pids
           /\ table' = IF r = "ok"
                       THEN [table EXCEPT ![pid].alive = FALSE] ELSE table
    /\ kill_i' = kill_i + 1
    /\ UNCHANGED <<procs, failed_copy, kill_pc>>
    /\ UNCHANGED <<calcVars, parseVars, argVars, mainVars, walkVars, shotVars>>

\* lines 85-89
KillReturn ==
    /\ kill_pc = "sigkill"
    /\ kill_i > Len(failed_copy)
    /\ kill_pc' = "returned"
    /\ UNCHANGED <<table, procs, kill_i, killed_pids, failed_pids, failed_copy, signals>>
    /\ UNCHANGED <<calcVars, parseVars, argVars, mainVars, walkVars, shotVars>>

\* the environment: a live process exits, by itself or on a SIGTERM it heeds
ProcExit ==
    /\ kill_pc \in {"find", "sigterm", "sigkill"}
    /\ \E pid \in TablePids :
          /\ table[pid].alive
          /\ table' = [table EXCEPT ![pid].alive = FALSE]
    /\ UNCHANGED <<procs, kill_i, killed_pids, failed_pids, failed_copy, signals,
                   kill_pc>>
    /\ UNCHANGED <<calcVars, parseVars, argVars, mainVars, walkVars, shotVars>>

(***************************************************************************)
(* main (lines 572-839) from the end of argument parsing to the written    *)
(* report and CSV, against its environment.                                *)
(*                                                                         *)
(* The environment: now is the wall clock in 1/Scale seconds; each         *)
(* application is one process (its main process: get_process_children      *)
(* finds no children here), alive or not, foreign when the operator may    *)
(* not signal it, with a cumulative CPU time.  A live process may die at   *)
(* any moment and burns CPU while alive.  Time passes in the sleeps.       *)
(* A PID that is None is 0.                                                *)
(***************************************************************************)
\* the longest monitoring duration and warmup, in seconds
MaxDuration == 2
MaxWarmup == 1
\* the CPU time, in 1/Scale seconds, the two applications burn between them
MaxCpu == 1

MAC_STATS_PID == 1
STATS_PID == 2
Pids == {MAC_STATS_PID, STATS_PID}

GraceSeconds == 2
LaunchSeconds == 2

pidVars == <<mac_stats_main_pid, stats_main_pid, mac_stats_pids, stats_pids>>
baselineVars == <<mac_stats_initial_times, stats_initial_times>>
loopVars == <<data, start_time, timestamp, mac_stats_metrics, stats_metrics>>
fileVars == <<report_file, csv_file>>
notMain == <<calcVars, parseVars, killVars, walkVars, shotVars, args, i, duration,
            interval, auto_kill, keep_running, debug, arg_pc>>

NoMetrics == [cpu_time_seconds |-> 0, cpu_time_delta |-> 0, process_count |-> 0,
              pids |-> <<>>]
NoFile == [written |-> FALSE]

\* datetime.now().strftime('%H:%M:%S') (line 753): the second of the day,
\* which orders as the text does
strftime_HMS(clock) == (clock \div Scale) % SecondsPerDay

\* os.kill(pid, 0) (lines 287, 311, 408, 416)
probe(pid) ==
    IF ~alive[pid] THEN "ProcessLookupError"
    ELSE IF foreign[pid] THEN "PermissionError"
    ELSE "ok"

\* get_process_children (lines 161-185)
get_process_children(parent_pid) == <<>>

\* get_all_related_pids (lines 187-195)
get_all_related_pids(main_pid) ==
    IF main_pid = 0 THEN <<>>
    ELSE <<main_pid>> \o get_process_children(main_pid)

\* a slip: the run goes on unless both applications failed to start
start_failure_bothNeeded(mac_pid, stats_pid) == mac_pid = 0 /\ stats_pid = 0

\* `not mac_stats_main_pid or not stats_main_pid` (lines 637, 666, 684)
start_failure(mac_pid, stats_pid) == mac_pid = 0 \/ stats_pid = 0

\* the running totals of get_total_cpu_metrics (lines 325, 329-330)
RECURSIVE total_cpu_time(_)
total_cpu_time(pids) ==
    IF pids = <<>> THEN 0 ELSE cpu_time[Head(pids)] + total_cpu_time(Tail(pids))

RECURSIVE total_cpu_time_delta(_, _)
total_cpu_time_delta(pids, initial_times) ==
    IF pids = <<>> THEN 0
    ELSE (cpu_time[Head(pids)] - initial_times[Head(pids)])
         + total_cpu_time_delta(Tail(pids), initial_times)

\* capture_initial_cpu_times (lines 281-297): the PIDs it records; a probe
\* that raises PermissionError is not caught
capture_raises(pids) == \E k \in 1..Len(pids) : probe(pids[k]) = "PermissionError"
capture_initial_cpu_times(pids) ==
    [pid \in {pids[k] : k \in {j \in 1..Len(pids) : probe(pids[j]) = "ok"}}
        |-> cpu_time[pid]]

\* a slip: a PID with no baseline entry is measured against zero
get_total_cpu_metrics_countsUntimed(pids, initial_times) ==
    LET valid_pids == SelectSeq(pids, LAMBDA pid : probe(pid) # "ProcessLookupError")
        timed == SelectSeq(valid_pids, LAMBDA pid : pid \in DOMAIN initial_times)
        untimed == SelectSeq(valid_pids, LAMBDA pid : pid \notin DOMAIN initial_times)
    IN  [cpu_time_seconds |-> total_cpu_time(valid_pids),
         cpu_time_delta |-> total_cpu_time_delta(timed, initial_times)
                            + total_cpu_time(untimed),
         process_count |-> Len(valid_pids),
         pids |-> valid_pids]

\* a slip: the delta is taken the wrong way round
get_total_cpu_metrics_negatedDelta(pids, initial_times) ==
    LET valid_pids == SelectSeq(pids, LAMBDA pid : probe(pid) # "ProcessLookupError")
        timed == SelectSeq(valid_pids, LAMBDA pid : pid \in DOMAIN initial_times)
    IN  [cpu_time_seconds |-> total_cpu_time(valid_pids),
         cpu_time_delta |-> 0 - total_cpu_time_delta(timed, initial_times),
         process_count |-> Len(valid_pids),
         pids |-> valid_pids]

\* get_total_cpu_metrics (lines 299-350); ps reports nothing for a dead PID
get_total_cpu_metrics(pids, initial_times) ==
    LET valid_pids == SelectSeq(pids, LAMBDA pid : probe(pid) # "ProcessLookupError")
        timed == SelectSeq(valid_pids, LAMBDA pid : pid \in DOMAIN initial_times)
    IN  [cpu_time_seconds |-> total_cpu_time(valid_pids),
         cpu_time_delta |-> total_cpu_time_delta(timed, initial_times),
         process_count |-> Len(valid_pids),
         pids |-> valid_pids]

\* generate_summary_report (lines 464-539): the figures the report states
generate_summary_report(samples) ==
    [written |-> TRUE,
     total_samples |-> Len(samples),
     mac_stats_cpu_time_delta |-> samples[Len(samples)].mac_stats.cpu_time_delta,
     stats_cpu_time_delta |-> samples[Len(samples)].stats.cpu_time_delta,
     reduction |-> calculate_reduction_percentage(
                       samples[Len(samples)].mac_stats.cpu_time_delta,
                       samples[Len(samples)].stats.cpu_time_delta)]

csv_row(entry) ==
    [timestamp |-> entry.timestamp,
     mac_stats_cpu_time_delta |-> entry.mac_stats.cpu_time_delta,
     mac_stats_procs |-> entry.mac_stats.process_count,
     stats_cpu_time_delta |-> entry.stats.cpu_time_delta,
     stats_procs |-> entry.stats.process_count,
     reduction_percent |-> calculate_reduction_percentage(
                               entry.mac_stats.cpu_time_delta,
                               entry.stats.cpu_time_delta)]

\* save_csv (lines 541-570): the header line, then one row per entry
save_csv(samples) ==
    [written |-> TRUE, header |-> TRUE,
     rows |-> [k \in 1..Len(samples) |-> csv_row(samples[k])]]

MainIdle ==
    /\ pc = "idle" /\ path = "none" /\ response = "none"
    /\ mac_stats_main_pid = 0 /\ stats_main_pid = 0
    /\ mac_stats_pids = <<>> /\ stats_pids = <<>>
    /\ warmup_start = 0
    /\ mac_stats_initial_times = <<>> /\ stats_initial_times = <<>>
    /\ data = <<>> /\ start_time = 0 /\ timestamp = 0
    /\ mac_stats_metrics = NoMetrics /\ stats_metrics = NoMetrics
    /\ report_file = NoFile /\ csv_file = NoFile
    /\ now = 0
    /\ existing = [pid \in Pids |-> FALSE]
    /\ alive = [pid \in Pids |-> FALSE]
    /\ foreign = [pid \in Pids |-> FALSE]
    /\ cpu_time = [pid \in Pids |-> 0]
    /\ start_failed = FALSE /\ warmup_entered = FALSE /\ died_in_warmup = {}
    /\ baseline_captured = FALSE /\ polls = <<>>
    /\ interrupted = FALSE /\ samples_at_interrupt = 0
    /\ warmup_requested = 0 /\ reused = FALSE
    /\ prompted = FALSE /\ terminated = <<>>

\* the flags of a run, and what the argument loop makes of them (lines
\* 585-590): each flag sets its variable, so the last of --keep-running and
\* --kill-after decides keep_running
RunArgs == { <<>>, <<FLAG_AUTO_KILL>>, <<FLAG_KEEP_RUNNING>>, <<FLAG_KILL_AFTER>>,
             <<FLAG_KEEP_RUNNING, FLAG_KILL_AFTER>> }
NoFlags == [auto_kill |-> FALSE, keep_running |-> "None"]
RECURSIVE flags_after(_, _)
flags_after(as, st) ==
    IF as = <<>> THEN st
    ELSE flags_after(Tail(as),
            IF Head(as) = FLAG_AUTO_KILL THEN [st EXCEPT !.auto_kill = TRUE]
            ELSE IF Head(as) = FLAG_KEEP_RUNNING THEN [st EXCEPT !.keep_running = "True"]
            ELSE IF Head(as) = FLAG_KILL_AFTER THEN [st EXCEPT !.keep_running = "False"]
            ELSE st)

\* the clock readings a run may start at: midnight, and half a second before
\* the next one
StartClocks == {0, SecondsPerDay * Scale - Scale \div 2}

\* main where the argument loop left it, for the arguments, the clock and the
\* process table chosen
MainStart ==
    /\ pc = "check_existing" /\ path = "none" /\ response = "none"
    /\ mac_stats_main_pid = 0 /\ stats_main_pid = 0
    /\ mac_stats_pids = <<>> /\ stats_pids = <<>>
    /\ warmup_start = 0
    /\ mac_stats_initial_times = <<>> /\ stats_initial_times = <<>>
    /\ data = <<>> /\ start_time = 0 /\ timestamp = 0
    /\ mac_stats_metrics = NoMetrics /\ stats_metrics = NoMetrics
    /\ report_file = NoFile /\ csv_file = NoFile
    /\ alive = existing
    /\ \A pid \in Pids : foreign[pid] => existing[pid]
    /\ cpu_time = [pid \in Pids |-> 0]
    /\ start_failed = FALSE /\ warmup_entered = FALSE /\ died_in_warmup = {}
    /\ baseline_captured = FALSE /\ polls = <<>>
    /\ interrupted = FALSE /\ samples_at_interrupt = 0
    /\ i = Len(args) /\ arg_pc = "parsed"
    /\ auto_kill = flags_after(args, NoFlags).auto_kill
    /\ keep_running = flags_after(args, NoFlags).keep_running
    /\ debug = FALSE
    /\ warmup_requested = warmup /\ reused = FALSE
    /\ prompted = FALSE /\ terminated = <<>>

\* runs with and without --auto-kill, over the clocks, process tables,
\* durations and warmups
MainInit ==
    /\ now \in StartClocks
    /\ existing \in [Pids -> BOOLEAN]
    /\ foreign \in [Pids -> BOOLEAN]
    /\ args \in {<<>>, <<FLAG_AUTO_KILL>>}
    /\ duration \in {0, MaxDuration}
    /\ interval = Scale
    /\ warmup \in {0, MaxWarmup}
    /\ MainStart

\* runs under each choice of flags, over the process tables
FlagsInit ==
    /\ now = 0
    /\ existing \in [Pids -> BOOLEAN]
    /\ foreign = [pid \in Pids |-> FALSE]
    /\ args \in RunArgs
    /\ duration = MaxDuration
    /\ interval = Scale
    /\ warmup = MaxWarmup
    /\ MainStart

\* unattended runs that start fresh and end with the kill, over the process
\* tables: the runs in which a PID may be used again
ReuseInit ==
    /\ now = 0
    /\ existing \in [Pids -> BOOLEAN]
    /\ foreign = [pid \in Pids |-> FALSE]
    /\ args = <<FLAG_AUTO_KILL, FLAG_KILL_AFTER>>
    /\ duration = MaxDuration
    /\ interval = Scale
    /\ warmup = MaxWarmup
    /\ MainStart

\* lines 607-612, 678-680: look for running instances
CheckExisting ==
    /\ pc = "check_existing"
    /\ IF \E pid \in Pids : existing[pid]
       THEN pc' = "decide" /\ path' = path
       ELSE pc' = "start_mac_stats" /\ path' = "fresh"
    /\ UNCHANGED <<response, pidVars, warmup_start, baselineVars, loopVars, fileVars>>
    /\ UNCHANGED <<envVars, histVars, warmup, notMain, tailVars>>

\* lines 619-625, 647-649: kill and start fresh, or use what runs; input()
\* raises EOFError when there is no operator to answer
Decide ==
    /\ pc = "decide"
    /\ \E r \in (IF auto_kill THEN {"y"} ELSE {"y", "n", "EOFError"}) :
          /\ response' = r
          /\ pc' = CASE r = "y" -> "kill_existing"
                     [] r = "n" -> "start_mac_stats"
                     [] OTHER -> "crashed"
          /\ path' = CASE r = "y" -> "restart"
                       [] r = "n" -> "existing"
                       [] OTHER -> path
    /\ UNCHANGED <<pidVars, warmup_start, baselineVars, loopVars, fileVars>>
    /\ UNCHANGED <<envVars, histVars, warmup, notMain, tailVars>>

\* lines 626-630: kill_existing_processes for each application found.  Each
\* call sleeps the grace period when a SIGTERM was delivered.  The instances
\* found are not tracked any further: alive then speaks of the fresh ones.
KillExisting ==
    /\ pc = "kill_existing"
    /\ now' = now + GraceSeconds * Scale
                    * Cardinality({pid \in Pids : existing[pid] /\ probe(pid) = "ok"})
    /\ alive' = [pid \in Pids |-> FALSE]
    /\ foreign' = [pid \in Pids |-> FALSE]
    /\ cpu_time' = [pid \in Pids |-> 0]
    /\ pc' = "start_mac_stats"
    /\ UNCHANGED <<path, response, pidVars, warmup_start, baselineVars, loopVars,
                   fileVars, existing>>
    /\ UNCHANGED <<histVars, warmup, notMain, tailVars>>

\* lines 634, 651-654, 681: start_mac_stats (lines 91-125) answers a PID or
\* None; a running instance is used as it is on the use-existing path
StartMacStats ==
    /\ pc = "start_mac_stats"
    /\ pc' = "start_stats_app"
    /\ IF path = "existing" /\ existing[MAC_STATS_PID]
       THEN /\ mac_stats_main_pid' = MAC_STATS_PID
            /\ UNCHANGED <<alive, start_failed>>
       ELSE \E started \in BOOLEAN :
               /\ mac_stats_main_pid' = IF started THEN MAC_STATS_PID ELSE 0
               /\ alive' = [alive EXCEPT ![MAC_STATS_PID] = started]
               /\ start_failed' = (start_failed \/ ~started)
    /\ UNCHANGED <<path, response, stats_main_pid, mac_stats_pids, stats_pids,
                   warmup_start, baselineVars, loopVars, fileVars>>
    /\ UNCHANGED <<now, existing, foreign, cpu_time, warmup_entered, died_in_warmup,
                   baseline_captured, polls, interrupted, samples_at_interrupt,
                   warmup, notMain, tailVars>>

\* lines 635, 656-664, 682: start_stats_app (lines 127-159): `open` fails, or
\* it sleeps and then finds the process or does not
StartStatsApp ==
    /\ pc = "start_stats_app"
    /\ pc' = "check_started"
    /\ IF path = "existing" /\ existing[STATS_PID]
       THEN /\ stats_main_pid' = STATS_PID
            /\ UNCHANGED <<alive, now, start_failed>>
       ELSE \E outcome \in {"open_failed", "found", "not_found"} :
               /\ stats_main_pid' = IF outcome = "found" THEN STATS_PID ELSE 0
               /\ alive' = [alive EXCEPT ![STATS_PID] = (outcome = "found")]
               /\ now' = IF outcome = "open_failed" THEN now
                         ELSE now + LaunchSeconds * Scale
               /\ start_failed' = (start_failed \/ outcome # "found")
    /\ UNCHANGED <<path, response, mac_stats_main_pid, mac_stats_pids, stats_pids,
                   warmup_start, baselineVars, loopVars, fileVars>>
    /\ UNCHANGED <<existing, foreign, cpu_time, warmup_entered, died_in_warmup,
                   baseline_captured, polls, interrupted, samples_at_interrupt,
                   warmup, notMain, tailVars>>

\* lines 637-646, 666-677, 684-693: give up unless both PIDs are known, else
\* list the PIDs to track; the use-existing path skips the warmup
CheckStarted ==
    /\ pc = "check_started"
    /\ IF start_failure(mac_stats_main_pid, stats_main_pid)
       THEN /\ pc' = "abort_start"
            /\ UNCHANGED <<mac_stats_pids, stats_pids, warmup>>
       ELSE /\ pc' = "warmup_gate"
            /\ mac_stats_pids' = get_all_related_pids(mac_stats_main_pid)
            /\ stats_pids' = get_all_related_pids(stats_main_pid)
            /\ warmup' = IF path = "existing" THEN 0 ELSE warmup
    /\ UNCHANGED <<path, response, mac_stats_main_pid, stats_main_pid, warmup_start,
                   baselineVars, loopVars, fileVars>>
    /\ UNCHANGED <<envVars, histVars, notMain, tailVars>>

\* lines 696-697, 702, 392-396: enter warmup_period, or go on to the baseline
WarmupGate ==
    /\ pc = "warmup_gate"
    /\ IF warmup > 0
       THEN pc' = "warmup_top" /\ warmup_start' = now /\ warmup_entered' = TRUE
       ELSE pc' = "baseline_mac_stats" /\ UNCHANGED <<warmup_start, warmup_entered>>
    /\ UNCHANGED <<path, response, pidVars, baselineVars, loopVars, fileVars>>
    /\ UNCHANGED <<envVars, start_failed, died_in_warmup, baseline_captured, polls,
                   interrupted, samples_at_interrupt, warmup, notMain, tailVars>>

\* lines 397-402: the loop test of warmup_period
WarmupTop ==
    /\ pc = "warmup_top"
    /\ pc' = IF warmup * Scale - (now - warmup_start) <= 0
             THEN "refresh" ELSE "warmup_probe_mac_stats"
    /\ UNCHANGED <<path, response, pidVars, warmup_start, baselineVars, loopVars,
                   fileVars>>
    /\ UNCHANGED <<envVars, histVars, warmup, notMain, tailVars>>

\* where a liveness probe of warmup_period leads: on to `ahead`, to the abort
\* of lines 409-411/417-419 and 698-699, or out by the uncaught PermissionError
after_warmup_probe(pids, ahead) ==
    IF pids = <<>> THEN ahead
    ELSE CASE probe(pids[1]) = "ok" -> ahead
           [] probe(pids[1]) = "ProcessLookupError" -> "abort_warmup"
           [] OTHER -> "crashed"

\* lines 405-411
WarmupProbeMacStats ==
    /\ pc = "warmup_probe_mac_stats"
    /\ pc' = after_warmup_probe(mac_stats_pids, "warmup_probe_stats")
    /\ UNCHANGED <<path, response, pidVars, warmup_start, baselineVars, loopVars,
                   fileVars>>
    /\ UNCHANGED <<envVars, histVars, warmup, notMain, tailVars>>

\* lines 413-419
WarmupProbeStats ==
    /\ pc = "warmup_probe_stats"
    /\ pc' = after_warmup_probe(stats_pids, "warmup_sleep")
    /\ UNCHANGED <<path, response, pidVars, warmup_start, baselineVars, loopVars,
                   fileVars>>
    /\ UNCHANGED <<envVars, histVars, warmup, notMain, tailVars>>

\* lines 421-427: time.sleep(0.5)
WarmupSleep ==
    /\ pc = "warmup_sleep"
    /\ now' = now + Scale \div 2
    /\ pc' = "warmup_top"
    /\ UNCHANGED <<path, response, pidVars, warmup_start, baselineVars, loopVars,
                   fileVars>>
    /\ UNCHANGED <<existing, alive, foreign, cpu_time, histVars, warmup, notMain, tailVars>>

\* lines 429-430, 701-707: warmup_period returned True; list the PIDs again
Refresh ==
    /\ pc = "refresh"
    /\ mac_stats_pids' = get_all_related_pids(mac_stats_main_pid)
    /\ stats_pids' = get_all_related_pids(stats_main_pid)
    /\ pc' = "baseline_mac_stats"
    /\ UNCHANGED <<path, response, mac_stats_main_pid, stats_main_pid, warmup_start,
                   baselineVars, loopVars, fileVars>>
    /\ UNCHANGED <<envVars, histVars, warmup, notMain, tailVars>>

\* line 715
BaselineMacStats ==
    /\ pc = "baseline_mac_stats"
    /\ baseline_captured' = TRUE
    /\ IF capture_raises(mac_stats_pids)
       THEN pc' = "crashed" /\ UNCHANGED mac_stats_initial_times
       ELSE /\ pc' = "baseline_stats"
            /\ mac_stats_initial_times' = capture_initial_cpu_times(mac_stats_pids)
    /\ UNCHANGED <<path, response, pidVars, warmup_start, stats_initial_times, loopVars,
                   fileVars>>
    /\ UNCHANGED <<envVars, start_failed, warmup_entered, died_in_warmup, polls,
                   interrupted, samples_at_interrupt, warmup, notMain, tailVars>>

\* lines 716-745: the second capture; give up when nothing was captured,
\* else start monitoring with no data
BaselineStats ==
    /\ pc = "baseline_stats"
    /\ IF capture_raises(stats_pids)
       THEN pc' = "crashed" /\ UNCHANGED <<stats_initial_times, start_time>>
       ELSE /\ stats_initial_times' = capture_initial_cpu_times(stats_pids)
            /\ IF mac_stats_initial_times = <<>> /\ stats_initial_times' = <<>>
               THEN pc' = "abort_baseline" /\ UNCHANGED start_time
               ELSE pc' = "loop_top" /\ start_time' = now
    /\ UNCHANGED <<path, response, pidVars, warmup_start, mac_stats_initial_times,
                   data, timestamp, mac_stats_metrics, stats_metrics, fileVars>>
    /\ UNCHANGED <<envVars, histVars, warmup, notMain, tailVars>>

\* lines 748-756: the loop test, then the poll's timestamp
LoopTop ==
    /\ pc = "loop_top"
    /\ IF now - start_time >= duration * Scale
       THEN pc' = "after_loop" /\ UNCHANGED <<timestamp, polls>>
       ELSE /\ pc' = "sample_mac_stats"
            /\ timestamp' = strftime_HMS(now)
            /\ polls' = Append(polls, now)
    /\ UNCHANGED <<path, response, pidVars, warmup_start, baselineVars, data,
                   start_time, mac_stats_metrics, stats_metrics, fileVars>>
    /\ UNCHANGED <<envVars, start_failed, warmup_entered, died_in_warmup,
                   baseline_captured, interrupted, samples_at_interrupt, warmup,
                   notMain, tailVars>>

\* line 758
SampleMacStats ==
    /\ pc = "sample_mac_stats"
    /\ mac_stats_metrics' = get_total_cpu_metrics(mac_stats_pids, mac_stats_initial_times)
    /\ pc' = "sample_stats"
    /\ UNCHANGED <<path, response, pidVars, warmup_start, baselineVars, data,
                   start_time, timestamp, stats_metrics, fileVars>>
    /\ UNCHANGED <<envVars, histVars, warmup, notMain, tailVars>>

\* line 759
SampleStats ==
    /\ pc = "sample_stats"
    /\ stats_metrics' = get_total_cpu_metrics(stats_pids, stats_initial_times)
    /\ pc' = "append"
    /\ UNCHANGED <<path, response, pidVars, warmup_start, baselineVars, data,
                   start_time, timestamp, mac_stats_metrics, fileVars>>
    /\ UNCHANGED <<envVars, histVars, warmup, notMain, tailVars>>

\* lines 761-768: the entry joins data and its status line is printed
AppendEntry ==
    /\ pc = "append"
    /\ data' = Append(data, [timestamp |-> timestamp,
                             mac_stats |-> mac_stats_metrics,
                             stats |-> stats_metrics])
    /\ pc' = "loop_sleep"
    /\ UNCHANGED <<path, response, pidVars, warmup_start, baselineVars, start_time,
                   timestamp, mac_stats_metrics, stats_metrics, fileVars>>
    /\ UNCHANGED <<envVars, histVars, warmup, notMain, tailVars>>

\* line 770: time.sleep(interval)
LoopSleep ==
    /\ pc = "loop_sleep"
    /\ now' = now + interval
    /\ pc' = "loop_top"
    /\ UNCHANGED <<path, response, pidVars, warmup_start, baselineVars, loopVars,
                   fileVars>>
    /\ UNCHANGED <<existing, alive, foreign, cpu_time, histVars, warmup, notMain, tailVars>>

InTry == {"loop_top", "sample_mac_stats", "sample_stats", "append", "loop_sleep"}

\* a slip: the handler keeps the entry of the poll it cut short
Interrupt_keepsPartial ==
    /\ pc \in InTry
    /\ pc' = "after_loop"
    /\ interrupted' = TRUE
    /\ samples_at_interrupt' = Len(data)
    /\ data' = IF pc \in {"sample_mac_stats", "sample_stats", "append"}
               THEN Append(data, [timestamp |-> timestamp,
                                  mac_stats |-> mac_stats_metrics,
                                  stats |-> stats_metrics])
               ELSE data
    /\ UNCHANGED <<path, response, pidVars, warmup_start, baselineVars, start_time,
                   timestamp, mac_stats_metrics, stats_metrics, fileVars>>
    /\ UNCHANGED <<envVars, start_failed, warmup_entered, died_in_warmup,
                   baseline_captured, polls, warmup, notMain, tailVars>>

\* lines 747, 772-773: the operator's KeyboardInterrupt anywhere in the try
Interrupt ==
    /\ pc \in InTry
    /\ pc' = "after_loop"
    /\ interrupted' = TRUE
    /\ samples_at_interrupt' = Len(data)
    /\ UNCHANGED <<path, response, pidVars, warmup_start, baselineVars, loopVars,
                   fileVars>>
    /\ UNCHANGED <<envVars, start_failed, warmup_entered, died_in_warmup,
                   baseline_captured, polls, warmup, notMain, tailVars>>

\* lines 775-782
AfterLoop ==
    /\ pc = "after_loop"
    /\ pc' = IF data = <<>> THEN "no_data" ELSE "write_report"
    /\ UNCHANGED <<path, response, pidVars, warmup_start, baselineVars, loopVars,
                   fileVars>>
    /\ UNCHANGED <<envVars, histVars, warmup, notMain, tailVars>>

\* lines 784-789
WriteReport ==
    /\ pc = "write_report"
    /\ report_file' = generate_summary_report(data)
    /\ pc' = "write_csv"
    /\ UNCHANGED <<path, response, pidVars, warmup_start, baselineVars, loopVars,
                   csv_file>>
    /\ UNCHANGED <<envVars, histVars, warmup, notMain, tailVars>>

\* line 790
WriteCsv ==
    /\ pc = "write_csv"
    /\ csv_file' = save_csv(data)
    /\ pc' = "reported"
    /\ UNCHANGED <<path, response, pidVars, warmup_start, baselineVars, loopVars,
                   report_file>>
    /\ UNCHANGED <<envVars, histVars, warmup, notMain, tailVars>>

\* lines 793-804: the screenshot offer, skipped with --auto-kill.  input()
\* raising EOFError or KeyboardInterrupt is passed over; screencapture is run
\* with check=True, and its CalledProcessError is caught by nothing
ScreenshotOffer ==
    /\ pc = "reported"
    /\ IF auto_kill
       THEN pc' = "cleanup" /\ response' = response
       ELSE \E r \in {"y", "n", "EOFError"} :
               /\ response' = r
               /\ \/ pc' = "cleanup"
                  \/ r = "y" /\ pc' = "screenshot_failed"
    /\ UNCHANGED <<path, pidVars, warmup_start, baselineVars, loopVars, fileVars>>
    /\ UNCHANGED <<envVars, histVars, warmup, notMain, tailVars>>

\* a slip: the operator is asked also when --auto-kill was given
TeardownDecide_asksInAutoMode ==
    /\ pc = "cleanup"
    /\ IF keep_running = "None"
       THEN /\ prompted' = TRUE
            /\ \E r \in {"y", "n", "EOFError"} :
                  /\ response' = r
                  /\ keep_running' = IF r = "n" THEN "False" ELSE "True"
       ELSE UNCHANGED <<prompted, response, keep_running>>
    /\ pc' = IF keep_running' = "False" THEN "kill_processes" ELSE "finished"
    /\ UNCHANGED <<path, pidVars, warmup_start, baselineVars, loopVars, fileVars>>
    /\ UNCHANGED <<envVars, histVars, warmup, warmup_requested, reused, terminated>>
    /\ UNCHANGED <<calcVars, parseVars, killVars, walkVars, shotVars, args, i,
                   duration, interval, auto_kill, debug, arg_pc>>

\* lines 811-822, 838-839: keep the applications or not.  Without a flag and
\* without --auto-kill the operator is asked; only the answer y keeps them,
\* as does an input() that raises; --auto-kill alone keeps them
TeardownDecide ==
    /\ pc = "cleanup"
    /\ IF keep_running = "None" /\ ~auto_kill
       THEN /\ prompted' = TRUE
            /\ \E r \in {"y", "n", "EOFError"} :
                  /\ response' = r
                  /\ keep_running' = IF r = "n" THEN "False" ELSE "True"
       ELSE /\ keep_running' = IF keep_running = "None" THEN "True" ELSE keep_running
            /\ UNCHANGED <<prompted, response>>
    /\ pc' = IF keep_running' = "False" THEN "kill_processes" ELSE "finished"
    /\ UNCHANGED <<path, pidVars, warmup_start, baselineVars, loopVars, fileVars>>
    /\ UNCHANGED <<envVars, histVars, warmup, warmup_requested, reused, terminated>>
    /\ UNCHANGED <<calcVars, parseVars, killVars, walkVars, shotVars, args, i,
                   duration, interval, auto_kill, debug, arg_pc>>

\* lines 823-837: os.kill(pid, SIGTERM) for every tracked PID of mac_stats,
\* then of Stats; whatever os.kill raises is passed over
TeardownKill ==
    /\ pc = "kill_processes"
    /\ terminated' = mac_stats_pids \o stats_pids
    /\ pc' = "finished"
    /\ UNCHANGED <<path, response, pidVars, warmup_start, baselineVars, loopVars,
                   fileVars>>
    /\ UNCHANGED <<envVars, histVars, warmup, notMain, warmup_requested, reused,
                   prompted>>

InWarmup == {"warmup_top", "warmup_probe_mac_stats", "warmup_probe_stats",
             "warmup_sleep"}
\* from the written reports on
AfterReports == {"reported", "cleanup", "kill_processes", "finished",
                 "screenshot_failed"}
\* where a run stops
Ended == {"abort_start", "abort_warmup", "abort_baseline", "crashed", "no_data",
          "screenshot_failed", "finished"}

\* the process table is read up to the end of the sampling loop
Watching == pc \notin Ended \cup AfterReports
                      \cup {"idle", "after_loop", "write_report", "write_csv"}

\* the environment: a live process dies
Die ==
    /\ Watching
    /\ \E pid \in Pids :
          /\ alive[pid]
          /\ alive' = [alive EXCEPT ![pid] = FALSE]
          /\ died_in_warmup' = IF pc \in InWarmup
                               THEN died_in_warmup \cup {pid} ELSE died_in_warmup
    /\ UNCHANGED <<progVars, now, existing, foreign, cpu_time, start_failed,
                   warmup_entered, baseline_captured, polls, interrupted,
                   samples_at_interrupt, warmup, notMain, tailVars>>

\* the environment: a live process uses the CPU
CpuBurn ==
    /\ Watching
    /\ \E pid \in Pids :
          /\ alive[pid]
          /\ cpu_time[MAC_STATS_PID] + cpu_time[STATS_PID] < MaxCpu
          /\ cpu_time' = [cpu_time EXCEPT ![pid] = @ + 1]
    /\ UNCHANGED <<progVars, now, existing, alive, foreign, histVars, warmup, notMain, tailVars>>

\* the environment: the PID of a tracked process that exited is given to a
\* new process, whose CPU time starts at zero; at most once in a run, while
\* the loop samples
Reuse ==
    /\ pc \in InTry
    /\ ~reused
    /\ \E pid \in Pids :
          /\ ~alive[pid]
          /\ \E k \in 1..Len(mac_stats_pids \o stats_pids) :
                (mac_stats_pids \o stats_pids)[k] = pid
          /\ alive' = [alive EXCEPT ![pid] = TRUE]
          /\ cpu_time' = [cpu_time EXCEPT ![pid] = 0]
    /\ reused' = TRUE
    /\ UNCHANGED <<progVars, now, existing, foreign, histVars, warmup, notMain,
                   warmup_requested, prompted, terminated>>

(***************************************************************************)
(* get_all_related_pids (lines 187-195) over get_process_children (lines   *)
(* 161-185).                                                               *)
(* Each call of get_process_children is a frame: the parent_pid asked      *)
(* about, the PIDs of the pgrep output not yet looked at, the children     *)
(* gathered so far, and whether the lookup failed.  The frames are the     *)
(* call stack, the innermost call last; seen is the one set the calls      *)
(* share.  What pgrep -P prints is any list of PIDs, the same or another   *)
(* at each lookup.                                                         *)
(***************************************************************************)
\* the PIDs told apart, and the longest pgrep output
MaxPid == 3
MaxChildren == 2

WalkPids == 1..MaxPid
PgrepOutputs == UNION {[1..n -> WalkPids] : n \in 0..MaxChildren}

WalkIdle == /\ walk_pid = 0 /\ seen = {} /\ frames = <<>> /\ all_pids = <<>>
            /\ lookups = 0 /\ walk_pc = "idle"

\* get_all_related_pids is called with a PID, or with None
WalkInit == /\ walk_pid \in 0..MaxPid
            /\ seen = {} /\ frames = <<>> /\ all_pids = <<>>
            /\ lookups = 0 /\ walk_pc = "call"

Frame(parent_pid) ==
    [parent_pid |-> parent_pid, pending |-> <<>>, children |-> <<>>, failed |-> FALSE]

Top == frames[Len(frames)]
SetTop(f) == [frames EXCEPT ![Len(frames)] = f]
Pop == SubSeq(frames, 1, Len(frames) - 1)

\* lines 189-193: None gives the empty list; else the list starts with
\* main_pid and get_process_children is called with a fresh seen (line 164)
GetAllRelatedPids ==
    /\ walk_pc = "call"
    /\ IF walk_pid = 0
       THEN all_pids' = <<>> /\ frames' = frames /\ walk_pc' = "done"
       ELSE /\ all_pids' = <<walk_pid>>
            /\ frames' = <<Frame(walk_pid)>>
            /\ walk_pc' = "lookup"
    /\ seen' = {}
    /\ UNCHANGED <<walk_pid, lookups>>
    /\ UNCHANGED <<calcVars, parseVars, argVars, killVars, mainVars, shotVars>>

\* lines 167-174: pgrep -P parent_pid prints a list of PIDs, or
\* subprocess.run raises and line 183 swallows it
Lookup ==
    /\ walk_pc = "lookup"
    /\ lookups' = lookups + 1
    /\ walk_pc' = "iterate"
    /\ \/ \E out \in PgrepOutputs : frames' = SetTop([Top EXCEPT !.pending = out])
       \/ frames' = SetTop([Top EXCEPT !.failed = TRUE])
    /\ UNCHANGED <<walk_pid, seen, all_pids>>
    /\ UNCHANGED <<calcVars, parseVars, argVars, killVars, mainVars, shotVars>>

\* lines 174-180: the next PID of the output: one not in seen joins seen and
\* children, and get_process_children is called on it
Iterate ==
    /\ walk_pc = "iterate"
    /\ Top.pending # <<>>
    /\ LET pid == Head(Top.pending)
       IN  IF pid \notin seen
           THEN /\ seen' = seen \cup {pid}
                /\ frames' = Append(SetTop([Top EXCEPT !.pending = Tail(@),
                                                       !.children = Append(@, pid)]),
                                    Frame(pid))
                /\ walk_pc' = "lookup"
           ELSE /\ seen' = seen
                /\ frames' = SetTop([Top EXCEPT !.pending = Tail(@)])
                /\ walk_pc' = walk_pc
    /\ UNCHANGED <<walk_pid, all_pids, lookups>>
    /\ UNCHANGED <<calcVars, parseVars, argVars, killVars, mainVars, shotVars>>

\* lines 181-185, 193-195: the call returns its children: the caller
\* extends its own with them, and get_all_related_pids extends all_pids
Return ==
    /\ walk_pc = "iterate"
    /\ Top.pending = <<>>
    /\ IF Len(frames) = 1
       THEN /\ all_pids' = all_pids \o Top.children
            /\ frames' = <<>>
            /\ walk_pc' = "done"
       ELSE /\ all_pids' = all_pids
            /\ frames' = [Pop EXCEPT ![Len(frames) - 1].children = @ \o Top.children]
            /\ walk_pc' = walk_pc
    /\ UNCHANGED <<walk_pid, seen, lookups>>
    /\ UNCHANGED <<calcVars, parseVars, argVars, killVars, mainVars, shotVars>>

(***************************************************************************)
(* The screenshot helper, take-screenshot.py.  FILENAME is fixed from the  *)
(* clock when the script starts (lines 16-17).  The window capture (lines  *)
(* 29-32) waits for a click for at most 8 seconds: screencapture exits     *)
(* with 0 after a click and with another code when the selection is        *)
(* cancelled; subprocess.run raises TimeoutExpired at the timeout, OSError *)
(* when the program cannot be run, and KeyboardInterrupt when the operator *)
(* interrupts the helper.  captures is the log of the captures attempted.  *)
(***************************************************************************)
\* the start times told apart
MaxStamp == 2
\* timeout=8 (line 31), in seconds
CaptureTimeout == 8

ShotIdle == /\ FILENAME = 0 /\ waited = 0 /\ result = "none" /\ captures = <<>>
            /\ opened = FALSE /\ shot_pc = "idle"

\* lines 16-24: the file name is chosen, the directory made
ShotInit == /\ FILENAME \in 1..MaxStamp
            /\ waited = 0 /\ result = "none" /\ captures = <<>>
            /\ opened = FALSE /\ shot_pc = "window_capture"

\* a capture of the given mode into the file
Capture(mode, file) == [mode |-> mode, file |-> file]

\* line 29: screencapture -w is started, unless it cannot be run
WindowCaptureStart ==
    /\ shot_pc = "window_capture"
    /\ \/ /\ captures' = Append(captures, Capture("window", FILENAME))
          /\ shot_pc' = "waiting" /\ result' = result
       \/ /\ result' = "OSError" /\ shot_pc' = "fallback_error"
          /\ captures' = captures
    /\ UNCHANGED <<FILENAME, waited, opened>>
    /\ UNCHANGED <<calcVars, parseVars, argVars, killVars, mainVars, walkVars>>

\* a second passes with no click
WindowCaptureWait ==
    /\ shot_pc = "waiting"
    /\ waited < CaptureTimeout
    /\ waited' = waited + 1
    /\ UNCHANGED <<FILENAME, result, captures, opened, shot_pc>>
    /\ UNCHANGED <<calcVars, parseVars, argVars, killVars, mainVars, walkVars>>

\* a slip: a cancelled selection ends the helper as an interrupt does
after_window_capture_cancelEnds(outcome) ==
    CASE outcome = "0" -> "open_dir"
      [] outcome = "1" -> "cancelled_by_user"
      [] outcome = "TimeoutExpired" -> "fallback_timeout"
      [] outcome = "KeyboardInterrupt" -> "cancelled_by_user"

\* where the end of the window capture leads (lines 34-50)
after_window_capture(outcome) ==
    CASE outcome = "0" -> "open_dir"
      [] outcome = "1" -> "fallback_cancelled"
      [] outcome = "TimeoutExpired" -> "fallback_timeout"
      [] outcome = "KeyboardInterrupt" -> "cancelled_by_user"

\* lines 29-34, 42, 46: the window capture ends: a click or a cancelled
\* selection before the timeout, the timeout itself, or an interrupt
WindowCaptureEnd ==
    /\ shot_pc = "waiting"
    /\ \E outcome \in {"0", "1", "TimeoutExpired", "KeyboardInterrupt"} :
          /\ outcome \in {"0", "1"} => waited < CaptureTimeout
          /\ outcome = "TimeoutExpired" => waited = CaptureTimeout
          /\ result' = outcome
          /\ shot_pc' = after_window_capture(outcome)
    /\ UNCHANGED <<FILENAME, waited, captures, opened>>
    /\ UNCHANGED <<calcVars, parseVars, argVars, killVars, mainVars, walkVars>>

\* lines 35-36: the window capture succeeded; the folder is opened, unless
\* `open` cannot be run (caught at line 48) or the operator interrupts
OpenDirectory ==
    /\ shot_pc = "open_dir"
    /\ \/ opened' = TRUE /\ shot_pc' = "saved_window"
       \/ opened' = opened /\ shot_pc' = "fallback_error"
       \/ opened' = opened /\ shot_pc' = "cancelled_by_user"
    /\ UNCHANGED <<FILENAME, waited, result, captures>>
    /\ UNCHANGED <<calcVars, parseVars, argVars, killVars, mainVars, walkVars>>

\* lines 38-40: the full-screen capture after a cancelled selection, still
\* inside the try: what it raises is caught at lines 46 and 48
FallbackCancelled ==
    /\ shot_pc = "fallback_cancelled"
    /\ captures' = Append(captures, Capture("full", FILENAME))
    /\ shot_pc' \in {"saved_full", "fallback_error", "cancelled_by_user"}
    /\ UNCHANGED <<FILENAME, waited, result, opened>>
    /\ UNCHANGED <<calcVars, parseVars, argVars, killVars, mainVars, walkVars>>

\* lines 43-45: the full-screen capture after the timeout; what it raises
\* is caught by nothing
FallbackTimeout ==
    /\ shot_pc = "fallback_timeout"
    /\ captures' = Append(captures, Capture("full", FILENAME))
    /\ shot_pc' \in {"saved_full", "crashed"}
    /\ UNCHANGED <<FILENAME, waited, result, opened>>
    /\ UNCHANGED <<calcVars, parseVars, argVars, killVars, mainVars, walkVars>>

\* lines 49-51: the full-screen capture after any other exception
FallbackError ==
    /\ shot_pc = "fallback_error"
    /\ captures' = Append(captures, Capture("full", FILENAME))
    /\ shot_pc' \in {"saved_full", "crashed"}
    /\ UNCHANGED <<FILENAME, waited, result, opened>>
    /\ UNCHANGED <<calcVars, parseVars, argVars, killVars, mainVars, walkVars>>

ShotEnded == {"saved_window", "saved_full", "cancelled_by_user", "crashed"}

(***************************************************************************)
(* Claims about kill_existing_processes (SpecKill).                        *)
(***************************************************************************)
Found == {procs[k] : k \in 1..Len(procs)}
Sent(sig, pid) == \E k \in 1..Len(signals) : signals[k].sig = sig /\ signals[k].pid = pid

\* C5: when the function returns, every found process was sent SIGTERM, every
\* SIGKILL came after that process's SIGTERM and after the grace period, and
\* every found process that is still alive (a straggler) was sent SIGKILL.
C5_SigtermGraceSigkill ==
    kill_pc = "returned" =>
       /\ \A pid \in Found : Sent("SIGTERM", pid)
       /\ \A k \in 1..Len(signals) :
             signals[k].sig = "SIGKILL" =>
                /\ \E j \in 1..(k - 1) : /\ signals[j].sig = "SIGTERM"
                                         /\ signals[j].pid = signals[k].pid
                /\ \E j \in 1..(k - 1) : signals[j].sig = "sleep"
       /\ \A pid \in Found : table[pid].alive => Sent("SIGKILL", pid)

(***************************************************************************)
(* Claims about calculate_reduction_percentage (SpecCalc).                 *)
(***************************************************************************)
\* C6: the zero policy: 0.0 when both inputs are zero, +infinity when stats is
\* zero and mac is not, 100.0 when mac is zero and stats is not, and +infinity
\* in no other case.
C6_ZeroPolicy ==
    calc_pc = "done" =>
       /\ (calc_mac = 0 /\ calc_stats = 0 => RatEq(calc_result, Rat(0, 1)))
       /\ (calc_mac # 0 /\ calc_stats = 0 => calc_result.inf)
       /\ (calc_mac = 0 /\ calc_stats # 0 => RatEq(calc_result, Rat(100, 1)))
       /\ (calc_result.inf => calc_mac # 0 /\ calc_stats = 0)

C6_Witness ==
    calc_pc = "done" /\ calc_mac = 5 /\ calc_stats = 0 /\ calc_result.inf

\* the result is the percentage (stats - mac) / stats * 100
IsReductionOf(r, mac, stats) ==
    ~r.inf /\ r.den # 0 /\ r.num * stats = (stats - mac) * 100 * r.den

\* C7 as stated: for all non-zero inputs the result is positive exactly when
\* mac < stats, negative exactly when mac > stats, and its value is
\* (stats - mac) / stats * 100, which is -(mac - stats) / stats * 100.
C7_SignedForAllNonZero ==
    (calc_pc = "done" /\ calc_mac # 0 /\ calc_stats # 0) =>
       /\ (RatPositive(calc_result) <=> calc_mac < calc_stats)
       /\ (RatNegative(calc_result) <=> calc_mac > calc_stats)
       /\ IsReductionOf(calc_result, calc_mac, calc_stats)

\* C7 amended: the value is (stats - mac) / stats * 100 for all non-zero
\* inputs; it is positive exactly when mac < stats and negative exactly when
\* mac > stats provided stats > 0, and the signs are reversed when stats < 0.
C7_SignedForPositiveBaseline ==
    (calc_pc = "done" /\ calc_mac # 0 /\ calc_stats # 0) =>
       /\ IsReductionOf(calc_result, calc_mac, calc_stats)
       /\ calc_stats > 0 =>
             /\ (RatPositive(calc_result) <=> calc_mac < calc_stats)
             /\ (RatNegative(calc_result) <=> calc_mac > calc_stats)
       /\ calc_stats < 0 =>
             /\ (RatPositive(calc_result) <=> calc_mac > calc_stats)
             /\ (RatNegative(calc_result) <=> calc_mac < calc_stats)

C7_Witness ==
    /\ calc_pc = "done" /\ calc_mac = 9 /\ calc_stats = 6
    /\ RatEq(calc_result, Rat(-50, 1))

(***************************************************************************)
(* Claims about parse_cpu_time (SpecParse).  The formats are those the     *)
(* claims list, read off the characters without the parser's helpers.      *)
(***************************************************************************)
IsDigitRun(s) == Len(s) > 0 /\ \A k \in 1..Len(s) : s[k] \in Digits

RECURSIVE Decimal(_)
Decimal(s) ==
    IF Len(s) = 0 THEN 0
    ELSE 10 * Decimal(SubSeq(s, 1, Len(s) - 1)) + DigitVal(s[Len(s)])

Positions(s, c) == {k \in 1..Len(s) : s[k] = c}
Min(S) == CHOOSE x \in S : \A y \in S : x <= y
Max(S) == CHOOSE x \in S : \A y \in S : x >= y
Before(s, k) == SubSeq(s, 1, k - 1)
After(s, k) == SubSeq(s, k + 1, Len(s))

\* SS[.frac]
IsSeconds(s, fraction) ==
    \/ IsDigitRun(s)
    \/ /\ fraction
       /\ Cardinality(Positions(s, ".")) = 1
       /\ IsDigitRun(Before(s, Min(Positions(s, "."))))
       /\ IsDigitRun(After(s, Min(Positions(s, "."))))

SecondsValue(s) ==
    IF Positions(s, ".") = {} THEN Decimal(s) * Scale
    ELSE LET d == Min(Positions(s, "."))
             frac == After(s, d)
         IN  Decimal(Before(s, d)) * Scale + (Decimal(frac) * Scale) \div (10 ^ Len(frac))

IsSS(s) == IsDigitRun(s)
IsMMSS(s, fraction) ==
    /\ Cardinality(Positions(s, ":")) = 1
    /\ IsDigitRun(Before(s, Min(Positions(s, ":"))))
    /\ IsSeconds(After(s, Min(Positions(s, ":"))), fraction)
IsHHMMSS(s, fraction) ==
    /\ Cardinality(Positions(s, ":")) = 2
    /\ IsDigitRun(Before(s, Min(Positions(s, ":"))))
    /\ IsDigitRun(SubSeq(s, Min(Positions(s, ":")) + 1, Max(Positions(s, ":")) - 1))
    /\ IsSeconds(After(s, Max(Positions(s, ":"))), fraction)
IsDDHHMMSS(s) ==
    /\ Cardinality(Positions(s, "-")) = 1
    /\ IsDigitRun(Before(s, Min(Positions(s, "-"))))
    /\ IsHHMMSS(After(s, Min(Positions(s, "-"))), FALSE)

\* SS, MM:SS[.frac], HH:MM:SS or DD-HH:MM:SS
WellFormed(s) == IsSS(s) \/ IsMMSS(s, TRUE) \/ IsHHMMSS(s, FALSE) \/ IsDDHHMMSS(s)

ClockValue(s) ==
    LET colons == Positions(s, ":")
    IN  IF colons = {} THEN SecondsValue(s)
        ELSE IF Cardinality(colons) = 1
        THEN 60 * Decimal(Before(s, Min(colons))) * Scale + SecondsValue(After(s, Min(colons)))
        ELSE 3600 * Decimal(Before(s, Min(colons))) * Scale
             + 60 * Decimal(SubSeq(s, Min(colons) + 1, Max(colons) - 1)) * Scale
             + SecondsValue(After(s, Max(colons)))

\* the seconds (in 1/Scale) a well-formed string denotes
Denoted(s) ==
    IF Positions(s, "-") = {} THEN ClockValue(s)
    ELSE LET d == Min(Positions(s, "-"))
         IN  86400 * Decimal(Before(s, d)) * Scale + ClockValue(After(s, d))

\* C8: for every well-formed string parse_cpu_time returns the seconds it
\* denotes: SS; 60*MM + SS; 3600*HH + 60*MM + SS; 86400*DD + the rest.
C8_ParsesWellFormed ==
    (parse_pc = "done" /\ WellFormed(cpu_time_str)) =>
        parse_result = Denoted(cpu_time_str)

C8_Witness ==
    /\ parse_pc = "done"
    /\ cpu_time_str = <<"2", "-", "1", "2", ":", "3", "4", ":", "5", "6">>
    /\ parse_result = 218096 * Scale

\* a string no reading of the formats accepts: not SS[.frac], MM:SS[.frac] or
\* HH:MM:SS[.frac], with or without a DD- prefix, also after trimming blanks
Malformed(text) ==
    LET s == strip(text)
        IsClock(t) == IsSeconds(t, TRUE) \/ IsMMSS(t, TRUE) \/ IsHHMMSS(t, TRUE)
    IN  ~ \/ IsClock(s)
          \/ /\ Cardinality(Positions(s, "-")) = 1
             /\ IsDigitRun(Before(s, Min(Positions(s, "-"))))
             /\ IsClock(After(s, Min(Positions(s, "-"))))

\* C9: parse_cpu_time returns 0.0 for every malformed input, a numeric day
\* prefix followed by a malformed rest included.
C9_MalformedYieldsZero ==
    (parse_pc = "done" /\ Malformed(cpu_time_str)) => parse_result = 0

(***************************************************************************)
(* Claims about the argument loop (SpecArgs).                              *)
(***************************************************************************)
\* digits, with at most one decimal point among them
IsNumberText(a) ==
    /\ \A k \in 1..Len(a) : a[k] \in Digits \cup {"."}
    /\ Cardinality(Positions(a, ".")) <= 1
    /\ \E k \in 1..Len(a) : a[k] \in Digits

Numbers(as) == SelectSeq(as, IsNumberText)
WholeSeconds(a) == SecondsValue(a) \div Scale

\* C10: once the arguments are parsed, duration is the first numeric argument,
\* interval the second and warmup the third, whatever their values; values
\* not supplied keep the defaults 60, 1 and 30.
C10_PositionalNumbers ==
    arg_pc = "parsed" =>
       LET nums == Numbers(args)
       IN  /\ duration = IF Len(nums) >= 1 THEN WholeSeconds(nums[1]) ELSE 60
           /\ interval = IF Len(nums) >= 2 THEN SecondsValue(nums[2]) ELSE 1 * Scale
           /\ Len(nums) <= 3 =>
                 warmup = IF Len(nums) = 3 THEN WholeSeconds(nums[3]) ELSE 30

(***************************************************************************)
(* Claims about main (Spec).                                               *)
(***************************************************************************)
\* the CSV holds one row per entry of data, in order
RowsAreSamples ==
    /\ csv_file.written /\ csv_file.header
    /\ Len(csv_file.rows) = Len(data)
    /\ \A k \in 1..Len(data) :
          /\ csv_file.rows[k].timestamp = data[k].timestamp
          /\ csv_file.rows[k].mac_stats_cpu_time_delta = data[k].mac_stats.cpu_time_delta
          /\ csv_file.rows[k].stats_cpu_time_delta = data[k].stats.cpu_time_delta

\* C1 as stated: a run whose sampling loop was interrupted ends with the
\* report and the CSV written, holding exactly the samples appended before the
\* interrupt.
C1_InterruptAlwaysReports ==
    (interrupted /\ pc \in Ended \cup AfterReports) =>
       /\ pc \in AfterReports
       /\ report_file.written /\ report_file.total_samples = samples_at_interrupt
       /\ RowsAreSamples /\ Len(csv_file.rows) = samples_at_interrupt

\* C1 amended: an interrupted run goes nowhere but to report generation; when
\* at least one sample was appended before the interrupt it ends with the
\* report and the CSV written, holding exactly those samples and no row for
\* the poll that was cut short; when none was, it ends with no file written.
C1_InterruptReportsCollected ==
    interrupted =>
       /\ pc \in {"after_loop", "write_report", "write_csv", "no_data"} \cup AfterReports
       /\ Len(data) = samples_at_interrupt
       /\ Len(polls) - samples_at_interrupt \in {0, 1}
       /\ pc \in Ended \cup AfterReports =>
             IF samples_at_interrupt > 0
             THEN /\ pc \in AfterReports
                  /\ report_file.written
                  /\ report_file.total_samples = samples_at_interrupt
                  /\ RowsAreSamples
                  /\ \A k \in 1..samples_at_interrupt :
                        csv_file.rows[k].timestamp = strftime_HMS(polls[k])
             ELSE /\ pc = "no_data"
                  /\ ~report_file.written /\ ~csv_file.written

\* an interrupt in the middle of the second poll, reported with one row
C1_Witness ==
    /\ interrupted /\ pc = "reported"
    /\ Len(polls) = 2 /\ samples_at_interrupt = 1
    /\ Len(csv_file.rows) = 1

\* C2: a run that was not interrupted and performed N polls has written the
\* header and exactly N rows, in poll order, and the timestamps of successive
\* rows never decrease.
C2_RowsPerPollMonotone ==
    (pc = "reported" /\ ~interrupted) =>
       /\ csv_file.header
       /\ Len(csv_file.rows) = Len(polls)
       /\ \A k \in 1..Len(csv_file.rows) :
             csv_file.rows[k].timestamp = strftime_HMS(polls[k])
       /\ \A k \in 1..(Len(csv_file.rows) - 1) :
             csv_file.rows[k].timestamp <= csv_file.rows[k + 1].timestamp

\* C3: once start_mac_stats or start_stats_app has yielded no PID, the run
\* is on its way to the abort or there: no warmup is entered, no baseline
\* captured, no poll made, no sample recorded and no file written.
C3_StartFailureAborts ==
    start_failed =>
       /\ pc \in {"start_stats_app", "check_started", "abort_start"}
       /\ ~warmup_entered /\ ~baseline_captured
       /\ mac_stats_initial_times = <<>> /\ stats_initial_times = <<>>
       /\ polls = <<>> /\ data = <<>>
       /\ ~report_file.written /\ ~csv_file.written

\* the abort on the use-existing path: mac_stats was running, Stats.app was
\* not and could not be started
C3_Witness ==
    /\ start_failed /\ pc = "abort_start" /\ path = "existing"
    /\ mac_stats_main_pid = MAC_STATS_PID /\ stats_main_pid = 0

\* C4: once a tracked main process has died during the warmup period, no
\* baseline is captured and no sample recorded, and the run ends in the
\* warmup's abort.
C4_DeathInWarmupAborts ==
    died_in_warmup # {} =>
       /\ ~baseline_captured
       /\ polls = <<>> /\ data = <<>>
       /\ pc \in Ended => pc = "abort_warmup"

\* the flag named is among the arguments
Given(flag) == \E k \in 1..Len(args) : args[k] = flag
\* every tracked PID of both applications, as the teardown signals them
Tracked == mac_stats_pids \o stats_pids

LastTeardownFlag ==
    LET at == {k \in 1..Len(args) : args[k] \in {FLAG_KEEP_RUNNING, FLAG_KILL_AFTER}}
    IN  IF at = {} THEN <<>>
        ELSE args[CHOOSE k \in at : \A j \in at : j <= k]

LaunchedByScript ==
    {pid \in Pids :
        /\ pid = IF pid = MAC_STATS_PID THEN mac_stats_main_pid ELSE stats_main_pid
        /\ ~(path = "existing" /\ existing[pid])}

\* C12: when the script launched an application, no baseline is captured
\* and no sample recorded before the warmup asked for has passed in full
\* since the launch: the warmup period was entered, after the launch, and by
\* the first measurement it has lasted the warmup asked for.
C12_WarmupAfterLaunch ==
    (LaunchedByScript # {} /\ warmup_requested > 0
        /\ (baseline_captured \/ polls # <<>> \/ data # <<>>)) =>
       /\ warmup_entered
       /\ now - warmup_start >= warmup_requested * Scale

(***************************************************************************)
(* Claims about the screenshot helper (SpecShot).                          *)
(***************************************************************************)
FullScreenCaptures == {k \in 1..Len(captures) : captures[k].mode = "full"}
FullScreenToSameFile == \E k \in FullScreenCaptures : captures[k].file = FILENAME

\* C13 as stated: when the helper is through, a window capture that timed
\* out or was cancelled, by a cancelled selection or by an interrupt, was
\* followed by a full-screen capture to the same file, and one that
\* succeeded by none.
C13_FallbackOnFailure ==
    shot_pc \in ShotEnded =>
       /\ result \in {"TimeoutExpired", "1", "KeyboardInterrupt"} => FullScreenToSameFile
       /\ result = "0" => FullScreenCaptures = {}

\* C13 amended: a window capture that timed out or whose selection was
\* cancelled (a non-zero exit) is followed by a full-screen capture to the
\* same file; one the operator interrupted is followed by none; one that
\* succeeded is followed by none unless opening the folder then raised an
\* exception other than the interrupt.
C13_FallbackUnlessInterrupted ==
    shot_pc \in ShotEnded =>
       /\ result \in {"TimeoutExpired", "1"} => FullScreenToSameFile
       /\ \A k \in FullScreenCaptures : captures[k].file = FILENAME
       /\ result = "KeyboardInterrupt" => FullScreenCaptures = {}
       /\ result = "0" =>
             (FullScreenCaptures = {} <=> shot_pc \in {"saved_window", "cancelled_by_user"})
       /\ (result = "0" /\ opened) => FullScreenCaptures = {}

\* the timeout ran out and the full screen was captured into the same file
C13_Witness ==
    /\ shot_pc = "saved_full" /\ result = "TimeoutExpired" /\ waited = CaptureTimeout
    /\ captures = <<Capture("window", FILENAME), Capture("full", FILENAME)>>

(***************************************************************************)
(* Claims about the baseline and the deltas (SpecReuse, Spec).             *)
(***************************************************************************)
PidsOf(pids) == {pids[k] : k \in 1..Len(pids)}
\* the tracked PIDs the process table holds
AliveOf(pids) == {pid \in PidsOf(pids) : alive[pid]}
\* of these, the ones the baseline has an entry for
MeasuredOf(pids, initial_times) == {pid \in AliveOf(pids) : pid \in DOMAIN initial_times}

RECURSIVE TimeSum(_)
TimeSum(S) ==
    IF S = {} THEN 0
    ELSE LET pid == CHOOSE x \in S : TRUE IN cpu_time[pid] + TimeSum(S \ {pid})

RECURSIVE DeltaSum(_, _)
DeltaSum(S, initial_times) ==
    IF S = {} THEN 0
    ELSE LET pid == CHOOSE x \in S : TRUE
         IN  (cpu_time[pid] - initial_times[pid]) + DeltaSum(S \ {pid}, initial_times)

\* what a poll of the given PIDs must report
PollAgrees(metrics, pids, initial_times) ==
    /\ metrics.cpu_time_delta = DeltaSum(MeasuredOf(pids, initial_times), initial_times)
    /\ metrics.process_count = Cardinality(AliveOf(pids))
    /\ metrics.cpu_time_seconds = TimeSum(AliveOf(pids))

C15_ProbesNeverAbort ==
    [][ /\ pc \in {"baseline_mac_stats", "baseline_stats", "sample_mac_stats",
                   "sample_stats"} => pc' # "crashed"
        /\ (pc = "baseline_mac_stats" /\ pc' # pc) =>
              DOMAIN mac_stats_initial_times' = AliveOf(mac_stats_pids)
        /\ (pc = "baseline_stats" /\ pc' # pc) =>
              DOMAIN stats_initial_times' = AliveOf(stats_pids)
        /\ (pc = "sample_mac_stats" /\ pc' = "sample_stats") =>
              PidsOf(mac_stats_metrics'.pids) = AliveOf(mac_stats_pids)
        /\ (pc = "sample_stats" /\ pc' = "append") =>
              PidsOf(stats_metrics'.pids) = AliveOf(stats_pids)
      ]_vars

Deltas(entry) == <<entry.mac_stats.cpu_time_delta, entry.stats.cpu_time_delta>>

\* C16: in a session in which no PID is used again, the cpu_time_delta of
\* each application is non-negative in every sample and does not decrease
\* from one sample to the next.
C16_DeltaNeverDecreases ==
    ~reused =>
       /\ \A k \in 1..Len(data) : Deltas(data[k])[1] >= 0 /\ Deltas(data[k])[2] >= 0
       /\ \A k \in 1..(Len(data) - 1) :
             /\ Deltas(data[k])[1] <= Deltas(data[k + 1])[1]
             /\ Deltas(data[k])[2] <= Deltas(data[k + 1])[2]

\* C16, amended: in a session in which no PID is used again, the
\* cpu_time_delta of each application is non-negative in every sample, and
\* does not decrease from one sample to the next in which the same PIDs of
\* the application are counted.
C16_DeltaNeverDecreasesWhileCounted ==
    ~reused =>
       /\ \A k \in 1..Len(data) : Deltas(data[k])[1] >= 0 /\ Deltas(data[k])[2] >= 0
       /\ \A k \in 1..(Len(data) - 1) :
             /\ data[k].mac_stats.pids = data[k + 1].mac_stats.pids =>
                   Deltas(data[k])[1] <= Deltas(data[k + 1])[1]
             /\ data[k].stats.pids = data[k + 1].stats.pids =>
                   Deltas(data[k])[2] <= Deltas(data[k + 1])[2]

\* two samples of a live mac_stats, the second with the larger delta
C16_Witness ==
    /\ ~reused
    /\ Len(data) >= 2
    /\ data[1].mac_stats.pids = <<MAC_STATS_PID>>
    /\ data[2].mac_stats.pids = <<MAC_STATS_PID>>
    /\ Deltas(data[1])[1] < Deltas(data[2])[1]

(***************************************************************************)
(* Claims about get_all_related_pids (SpecPids).                           *)
(***************************************************************************)
NoPidTwice(pids) == \A j, k \in 1..Len(pids) : j # k => pids[j] # pids[k]

\* C17: get_all_related_pids ends, after no more lookups than one per PID
\* met and one for main_pid, whatever the lookups print and however that
\* changes from one lookup to the next; the list it returns starts with
\* main_pid and holds no PID twice; a lookup that fails gives no children
\* and the traversal goes on.
C17_MainFirstNoPidTwice ==
    /\ lookups <= Cardinality(seen) + 1
    /\ \A k \in 1..Len(frames) :
          frames[k].failed => frames[k].children = <<>> /\ frames[k].pending = <<>>
    /\ (walk_pc = "done" /\ walk_pid # 0) =>
          /\ all_pids[1] = walk_pid
          /\ NoPidTwice(all_pids)

(***************************************************************************)
(* Specifications.                                                         *)
(***************************************************************************)
ArgQuiet == /\ ArgIdle /\ duration = DefaultDuration
            /\ interval = DefaultInterval * Scale /\ warmup = DefaultWarmup
            /\ auto_kill = FALSE

CalcNext == CalcCall
InitCalc == CalcInit /\ ParseIdle /\ ArgQuiet /\ KillIdle /\ MainIdle /\ WalkIdle /\ ShotIdle
SpecCalc == InitCalc /\ [][CalcNext]_vars

ParseNext == ParseCall
InitParse == ParseInit /\ CalcIdle /\ ArgQuiet /\ KillIdle /\ MainIdle /\ WalkIdle /\ ShotIdle
SpecParse == InitParse /\ [][ParseNext]_vars

ArgNext == ArgStep \/ ArgDone
InitArgs == ArgInit /\ CalcIdle /\ ParseIdle /\ KillIdle /\ MainIdle /\ WalkIdle /\ ShotIdle
SpecArgs == InitArgs /\ [][ArgNext]_vars

KillNext == KillFind \/ KillSigterm \/ KillGrace \/ KillSigkill \/ KillReturn
            \/ ProcExit
InitKill == KillInit /\ CalcIdle /\ ParseIdle /\ ArgQuiet /\ MainIdle /\ WalkIdle /\ ShotIdle
SpecKill == InitKill /\ [][KillNext]_vars

MainNext ==
    \/ CheckExisting \/ Decide \/ KillExisting
    \/ StartMacStats \/ StartStatsApp \/ CheckStarted
    \/ WarmupGate \/ WarmupTop \/ WarmupProbeMacStats \/ WarmupProbeStats
    \/ WarmupSleep \/ Refresh
    \/ BaselineMacStats \/ BaselineStats
    \/ LoopTop \/ SampleMacStats \/ SampleStats \/ AppendEntry \/ LoopSleep
    \/ Interrupt \/ AfterLoop \/ WriteReport \/ WriteCsv
    \/ ScreenshotOffer \/ TeardownDecide \/ TeardownKill
    \/ Die \/ CpuBurn
Init == MainInit /\ CalcIdle /\ ParseIdle /\ KillIdle /\ WalkIdle /\ ShotIdle
Spec == Init /\ [][MainNext]_vars

InitFlags == FlagsInit /\ CalcIdle /\ ParseIdle /\ KillIdle /\ WalkIdle /\ ShotIdle
SpecFlags == InitFlags /\ [][MainNext]_vars

ReuseNext == MainNext \/ Reuse
InitReuse == ReuseInit /\ CalcIdle /\ ParseIdle /\ KillIdle /\ WalkIdle /\ ShotIdle
SpecReuse == InitReuse /\ [][ReuseNext]_vars

PidsNext == GetAllRelatedPids \/ Lookup \/ Iterate \/ Return
InitPids == WalkInit /\ CalcIdle /\ ParseIdle /\ ArgQuiet /\ KillIdle /\ MainIdle /\ ShotIdle
SpecPids == InitPids /\ [][PidsNext]_vars

ShotNext == WindowCaptureStart \/ WindowCaptureWait \/ WindowCaptureEnd
            \/ OpenDirectory \/ FallbackCancelled \/ FallbackTimeout \/ FallbackError
InitShot == ShotInit /\ CalcIdle /\ ParseIdle /\ ArgQuiet /\ KillIdle /\ MainIdle /\ WalkIdle
SpecShot == InitShot /\ [][ShotNext]_vars

====
